---- MODULE Spec2Model ----
(***************************************************************************)
(* Model of the instanced-mesh pooling subsystem of three-zoo:             *)
(*   src/src/instancedMeshPool/InstancedMeshPool.ts      (swap-compact)    *)
(*   src/src/instancedMeshPool/InstancedMeshInstance.ts  (transform cache) *)
(*   src/unnamed/part_013                                (InstancedMeshGroup)*)
(* The pool is modelled as a record `pool`; every method of the class is a *)
(* pure operator from a pool record to the pool record after the call, and *)
(* every public entry point is one action.                                 *)
(***************************************************************************)
EXTENDS Integers, Sequences, FiniteSets, TLC

VARIABLES pool, inst, peak, landed, last

vars == <<pool, inst, peak, landed, last>>

(***************************************************************************)
(* Bounds of the model.                                                    *)
(***************************************************************************)
\* allocate() is called at most MaxHandlers times in a behaviour
MaxHandlers == 3
\* number of InstancedMeshInstance objects a behaviour constructs
MaxInstances == 2
\* the options the pool is constructed with: <<initialCapacity, capacityStep>>
PoolOptions == {<<0, 2>>, <<2, 1>>}
\* the options of the pool the instance API is driven on
InstancePoolOptions == {<<1, 1>>}

(***************************************************************************)
(* three.js values.  A Matrix4 built from translation, rotation and scale  *)
(* is the triple <<position, rotation, scale>>; one coordinate stands for  *)
(* the vector.  NaNMatrix is what getMatrixAt reads outside the typed      *)
(* array.                                                                  *)
(***************************************************************************)
\* 2^24 + 1: the smallest positive integer a Float32Array cannot hold
BigCoordinate == 16777217

Positions == {0, BigCoordinate}
Quaternions == {"qIdentity", "qNegIdentity"}
Scales == {1}

\* Matrix4.makeRotationFromQuaternion: q and -q are the same rotation
RotationOf(q) == IF q = "qHalfTurnX" THEN "rHalfTurnX" ELSE "rIdentity"

\* Quaternion.setFromRotationMatrix: the representative with w >= 0
QuaternionOf(r) == IF r = "rHalfTurnX" THEN "qHalfTurnX" ELSE "qIdentity"

\* new Matrix4()
IdentityMatrix == <<0, "rIdentity", 1>>

\* a Matrix4 whose elements are NaN / undefined
NaNMatrix == <<0, "NaN", 0>>

\* the value `undefined` where a Matrix4 is expected
Undefined == <<0, "undefined", 0>>

\* Matrix4.compose(position, quaternion, scale)
Compose(p, q, s) == <<p, RotationOf(q), s>>

\* Matrix4.decompose(position, quaternion, scale)
Decompose(M) == [position |-> M[1], quaternion |-> QuaternionOf(M[2]), scale |-> M[3]]

\* Math.fround on one coordinate: storing a number in a Float32Array
Fround(x) == IF x = BigCoordinate THEN BigCoordinate - 1 ELSE x

\* the 16 elements of a Matrix4 stored into instanceMatrix.array
ToFloat32(M) == IF M[2] = "NaN" THEN M ELSE <<Fround(M[1]), M[2], M[3]>>

\* matrices a caller passes to setTransformMatrix / setTransform
Matrices == {IdentityMatrix, <<BigCoordinate, "rIdentity", 1>>}

(***************************************************************************)
(* Geometry / material identity and the entry key.                         *)
(***************************************************************************)
Geometries == {"geometryA", "geometryB"}
Materials == {"materialA", "materialB"}

\* the (geometry, material) pairs the pool API is driven with
Pairs == {<<"geometryA", "materialA">>, <<"geometryA", "materialB">>}

\* Object uuid (three.js assigns one per object): a fixed-length string
\* without ':'.  Kept as a sequence of characters so that the key is built
\* by concatenation as in the source.
Uuid(x) ==
  CASE x = "geometryA" -> <<"a", "1">>
    [] x = "geometryB" -> <<"b", "1">>
    [] x = "materialA" -> <<"c", "1">>
    [] x = "materialB" -> <<"c", "2">>

KeyGeometryOnly(g, m) == Uuid(g)

\* const key = `${geometry.uuid}:${material.uuid}`
Key(g, m) == Uuid(g) \o <<":">> \o Uuid(m)

(***************************************************************************)
(* InstancedMesh (three.js): count, instanceMatrix.array and its dirty     *)
(* flag, renderOrder.  Slot i of the source is element i + 1 here.  `id`   *)
(* is the identity of the object: the mesh created for a new entry, or the *)
(* mesh created by growEntry, during the allocate call that returns        *)
(* handler h is <<h, "entry">>, respectively <<h, "grown">>.               *)
(***************************************************************************)
\* new InstancedMesh(geometry, material, count): three.js r175 fills the
\* buffer with identity matrices
NewInstancedMesh(geometry, material, n, id) ==
  [id |-> id,
   geometry |-> geometry,
   material |-> material,
   count |-> n,
   instanceMatrix |-> [i \in 1..n |-> IdentityMatrix],
   needsUpdate |-> FALSE,
   renderOrder |-> 0]

\* InstancedMesh.getMatrixAt(index, target)
getMatrixAt(mesh, index) ==
  IF index >= 0 /\ index < Len(mesh.instanceMatrix)
  THEN mesh.instanceMatrix[index + 1]
  ELSE NaNMatrix

\* InstancedMesh.setMatrixAt(index, matrix): a write outside the typed array
\* is dropped
setMatrixAt(mesh, index, M) ==
  IF index >= 0 /\ index < Len(mesh.instanceMatrix)
  THEN [mesh EXCEPT !.instanceMatrix[index + 1] = ToFloat32(M)]
  ELSE mesh

\* array[index] = value on a JS array with index <= length
ArraySet(arr, index, value) ==
  IF index < Len(arr) THEN [arr EXCEPT ![index + 1] = value] ELSE Append(arr, value)

(***************************************************************************)
(* InstancedMeshPool methods, as operators on the pool record P.           *)
(***************************************************************************)
isValidHandler(P, handler) == handler \in DOMAIN P.descriptors

getOrCreateEntryNoLookup(P, geometry, material, tag) ==
  LET key == Key(geometry, material)
      mesh == [NewInstancedMesh(geometry, material, P.initialCapacity,
                                <<P.nextHandler, "entry">>) EXCEPT !.count = 0]
      entry == [mesh |-> mesh, geometry |-> geometry, material |-> material,
                tag |-> tag, capacity |-> P.initialCapacity, count |-> 0,
                handlers |-> <<>>]
  IN [P EXCEPT !.scene = P.scene \cup {mesh.id},
               !.entries = (key :> entry) @@ P.entries]

getOrCreateEntry(P, geometry, material, tag) ==
  LET key == Key(geometry, material)
      mesh == [NewInstancedMesh(geometry, material, P.initialCapacity,
                                <<P.nextHandler, "entry">>) EXCEPT !.count = 0]
      entry == [mesh |-> mesh, geometry |-> geometry, material |-> material,
                tag |-> tag, capacity |-> P.initialCapacity, count |-> 0,
                handlers |-> <<>>]
  IN IF key \in DOMAIN P.entries
     THEN P
     ELSE [P EXCEPT !.scene = P.scene \cup {mesh.id},
                    !.entries = (key :> entry) @@ P.entries]

growEntryNoCopy(P, key) ==
  LET entry == P.entries[key]
      newCapacity == entry.capacity + P.capacityStep
      newMesh == [NewInstancedMesh(entry.geometry, entry.material, newCapacity,
                                   <<P.nextHandler, "grown">>) EXCEPT
                    !.renderOrder = entry.mesh.renderOrder,
                    !.needsUpdate = TRUE,
                    !.count = entry.count]
  IN [P EXCEPT !.scene = (P.scene \ {entry.mesh.id}) \cup {newMesh.id},
               !.disposed = P.disposed \cup {entry.mesh.id},
               !.entries[key] =
                 [entry EXCEPT !.mesh = newMesh, !.capacity = newCapacity]]

growEntryKeepCapacity(P, key) ==
  LET entry == P.entries[key]
  IN [P EXCEPT !.entries[key].mesh.needsUpdate = TRUE]

growEntryByOne(P, key) ==
  LET entry == P.entries[key]
      newCapacity == entry.capacity + 1
      fresh == NewInstancedMesh(entry.geometry, entry.material, newCapacity,
                                <<P.nextHandler, "grown">>)
      oldArray == entry.mesh.instanceMatrix
      newMesh == [fresh EXCEPT
                    !.renderOrder = entry.mesh.renderOrder,
                    !.instanceMatrix =
                       [i \in 1..newCapacity |->
                          IF i <= Len(oldArray) THEN oldArray[i]
                          ELSE fresh.instanceMatrix[i]],
                    !.needsUpdate = TRUE,
                    !.count = entry.count]
  IN [P EXCEPT \* scene.remove(entry.mesh); entry.mesh.dispose(); scene.add(newMesh)
               !.scene = (P.scene \ {entry.mesh.id}) \cup {newMesh.id},
               !.disposed = P.disposed \cup {entry.mesh.id},
               !.entries[key] =
                 [entry EXCEPT !.mesh = newMesh, !.capacity = newCapacity]]

growEntryNoRenderOrder(P, key) ==
  LET entry == P.entries[key]
      newCapacity == entry.capacity + P.capacityStep
      fresh == NewInstancedMesh(entry.geometry, entry.material, newCapacity,
                                <<P.nextHandler, "grown">>)
      oldArray == entry.mesh.instanceMatrix
      newMesh == [fresh EXCEPT
                    !.instanceMatrix =
                       [i \in 1..newCapacity |->
                          IF i <= Len(oldArray) THEN oldArray[i]
                          ELSE fresh.instanceMatrix[i]],
                    !.needsUpdate = TRUE,
                    !.count = entry.count]
  IN [P EXCEPT !.scene = (P.scene \ {entry.mesh.id}) \cup {newMesh.id},
               !.disposed = P.disposed \cup {entry.mesh.id},
               !.entries[key] =
                 [entry EXCEPT !.mesh = newMesh, !.capacity = newCapacity]]

growEntryKeepOldMesh(P, key) ==
  LET entry == P.entries[key]
      newCapacity == entry.capacity + P.capacityStep
      fresh == NewInstancedMesh(entry.geometry, entry.material, newCapacity,
                                <<P.nextHandler, "grown">>)
      oldArray == entry.mesh.instanceMatrix
      newMesh == [fresh EXCEPT
                    !.renderOrder = entry.mesh.renderOrder,
                    !.instanceMatrix =
                       [i \in 1..newCapacity |->
                          IF i <= Len(oldArray) THEN oldArray[i]
                          ELSE fresh.instanceMatrix[i]],
                    !.needsUpdate = TRUE,
                    !.count = entry.count]
  IN [P EXCEPT !.scene = P.scene \cup {newMesh.id},
               !.disposed = P.disposed \cup {entry.mesh.id},
               !.entries[key] =
                 [entry EXCEPT !.mesh = newMesh, !.capacity = newCapacity]]

growEntry(P, key) ==
  LET entry == P.entries[key]
      newCapacity == entry.capacity + P.capacityStep
      fresh == NewInstancedMesh(entry.geometry, entry.material, newCapacity,
                                <<P.nextHandler, "grown">>)
      oldArray == entry.mesh.instanceMatrix
      newMesh == [fresh EXCEPT
                    !.renderOrder = entry.mesh.renderOrder,
                    \* newArray.set(oldArray)
                    !.instanceMatrix =
                       [i \in 1..newCapacity |->
                          IF i <= Len(oldArray) THEN oldArray[i]
                          ELSE fresh.instanceMatrix[i]],
                    !.needsUpdate = TRUE,
                    !.count = entry.count]
  IN [P EXCEPT \* scene.remove(entry.mesh); entry.mesh.dispose(); scene.add(newMesh)
               !.scene = (P.scene \ {entry.mesh.id}) \cup {newMesh.id},
               !.disposed = P.disposed \cup {entry.mesh.id},
               !.entries[key] =
                 [entry EXCEPT !.mesh = newMesh, !.capacity = newCapacity]]

\* the pool after allocate(geometry, material, tag); the handler returned is
\* P.nextHandler
allocate(P, geometry, material, tag) ==
  LET key == Key(geometry, material)
      P1 == getOrCreateEntry(P, geometry, material, tag)
      P2 == IF P1.entries[key].count = P1.entries[key].capacity
            THEN growEntry(P1, key)
            ELSE P1
      entry == P2.entries[key]
      index == entry.count
      handler == P2.nextHandler
      entry1 == [entry EXCEPT
                   !.handlers = ArraySet(entry.handlers, index, handler),
                   !.count = entry.count + 1,
                   !.mesh.count = entry.count + 1]
  IN [P2 EXCEPT !.nextHandler = handler + 1,
                !.entries[key] = entry1,
                !.descriptors = (handler :> [entry |-> key, index |-> index])
                                  @@ P2.descriptors]

RemoveKey(f, k) == [x \in DOMAIN f \ {k} |-> f[x]]

deallocateNoSwap(P, handler) ==
  IF handler \notin DOMAIN P.descriptors
  THEN P
  ELSE
    LET key == P.descriptors[handler].entry
        entry == P.entries[key]
        entry2 == [entry EXCEPT
                     !.count = entry.count - 1,
                     !.mesh.count = entry.count - 1,
                     !.mesh.needsUpdate = TRUE]
    IN [P EXCEPT !.descriptors = RemoveKey(P.descriptors, handler),
                 !.entries[key] = entry2]

deallocateNoMatrixCopy(P, handler) ==
  IF handler \notin DOMAIN P.descriptors
  THEN P
  ELSE
    LET descriptor == P.descriptors[handler]
        key == descriptor.entry
        entry == P.entries[key]
        removedIndex == descriptor.index
        lastIndex == entry.count - 1
        descriptors1 == RemoveKey(P.descriptors, handler)
        lastHandler == entry.handlers[lastIndex + 1]
        swap == removedIndex # lastIndex /\ lastHandler \in DOMAIN descriptors1
        entry1 ==
          IF swap
          THEN [entry EXCEPT
                  !.handlers = ArraySet(entry.handlers, removedIndex, lastHandler)]
          ELSE entry
        descriptors2 ==
          IF swap
          THEN [descriptors1 EXCEPT ![lastHandler].index = removedIndex]
          ELSE descriptors1
        entry2 == [entry1 EXCEPT
                     !.count = entry.count - 1,
                     !.mesh.count = entry.count - 1,
                     !.mesh.needsUpdate = TRUE]
    IN [P EXCEPT !.descriptors = descriptors2, !.entries[key] = entry2]

deallocateShrink(P, handler) ==
  IF handler \notin DOMAIN P.descriptors
  THEN P
  ELSE
    LET descriptor == P.descriptors[handler]
        key == descriptor.entry
        entry == P.entries[key]
        removedIndex == descriptor.index
        lastIndex == entry.count - 1
        descriptors1 == RemoveKey(P.descriptors, handler)
        lastHandler == entry.handlers[lastIndex + 1]
        swap == removedIndex # lastIndex /\ lastHandler \in DOMAIN descriptors1
        entry1 ==
          IF swap
          THEN [entry EXCEPT
                  !.mesh = setMatrixAt(entry.mesh, removedIndex,
                                       getMatrixAt(entry.mesh, lastIndex)),
                  !.handlers = ArraySet(entry.handlers, removedIndex, lastHandler)]
          ELSE entry
        descriptors2 ==
          IF swap
          THEN [descriptors1 EXCEPT ![lastHandler].index = removedIndex]
          ELSE descriptors1
        entry2 == [entry1 EXCEPT
                     !.count = entry.count - 1,
                     !.capacity = entry.count - 1,
                     !.mesh.count = entry.count - 1,
                     !.mesh.needsUpdate = TRUE]
    IN [P EXCEPT !.descriptors = descriptors2, !.entries[key] = entry2]

deallocate(P, handler) ==
  IF handler \notin DOMAIN P.descriptors
  THEN P
  ELSE
    LET descriptor == P.descriptors[handler]
        key == descriptor.entry
        entry == P.entries[key]
        removedIndex == descriptor.index
        lastIndex == entry.count - 1
        descriptors1 == RemoveKey(P.descriptors, handler)
        lastHandler == entry.handlers[lastIndex + 1]
        swap == removedIndex # lastIndex /\ lastHandler \in DOMAIN descriptors1
        entry1 ==
          IF swap
          THEN [entry EXCEPT
                  !.mesh = setMatrixAt(entry.mesh, removedIndex,
                                       getMatrixAt(entry.mesh, lastIndex)),
                  !.handlers = ArraySet(entry.handlers, removedIndex, lastHandler)]
          ELSE entry
        descriptors2 ==
          IF swap
          THEN [descriptors1 EXCEPT ![lastHandler].index = removedIndex]
          ELSE descriptors1
        entry2 == [entry1 EXCEPT
                     !.count = entry.count - 1,
                     !.mesh.count = entry.count - 1,
                     !.mesh.needsUpdate = TRUE]
    IN [P EXCEPT !.descriptors = descriptors2, !.entries[key] = entry2]

setTransformMatrixNoFlag(P, handler, M) ==
  IF handler \notin DOMAIN P.descriptors
  THEN P
  ELSE
    LET descriptor == P.descriptors[handler]
        entry == P.entries[descriptor.entry]
    IN [P EXCEPT !.entries[descriptor.entry].mesh =
          setMatrixAt(entry.mesh, descriptor.index, M)]

setTransformMatrix(P, handler, M) ==
  IF handler \notin DOMAIN P.descriptors
  THEN P
  ELSE
    LET descriptor == P.descriptors[handler]
        entry == P.entries[descriptor.entry]
    IN [P EXCEPT !.entries[descriptor.entry].mesh =
          [setMatrixAt(entry.mesh, descriptor.index, M) EXCEPT !.needsUpdate = TRUE]]

getTransformMatrixReturnsTarget(P, handler) ==
  IF handler \notin DOMAIN P.descriptors
  THEN IdentityMatrix
  ELSE getMatrixAt(P.entries[P.descriptors[handler].entry].mesh,
                   P.descriptors[handler].index)

\* the value returned by getTransformMatrix(handler, target)
getTransformMatrix(P, handler) ==
  IF handler \notin DOMAIN P.descriptors
  THEN Undefined
  ELSE getMatrixAt(P.entries[P.descriptors[handler].entry].mesh,
                   P.descriptors[handler].index)

\* the objects entry.mesh of the entries of P
EntryMeshes(P) == {P.entries[k].mesh.id : k \in DOMAIN P.entries}

disposeKeepScene(P) ==
  [P EXCEPT !.disposed = P.disposed \cup EntryMeshes(P),
            !.entries = <<>>,
            !.descriptors = <<>>]

disposeResetHandlers(P) ==
  [P EXCEPT !.scene = P.scene \ EntryMeshes(P),
            !.disposed = P.disposed \cup EntryMeshes(P),
            !.entries = <<>>,
            !.descriptors = <<>>,
            !.nextHandler = 1]

dispose(P) ==
  [P EXCEPT !.scene = P.scene \ EntryMeshes(P),
            !.disposed = P.disposed \cup EntryMeshes(P),
            !.entries = <<>>,
            !.descriptors = <<>>]

(***************************************************************************)
(* sortEntryInstances.  Array.prototype.sort is the host's: with a         *)
(* consistent comparator the result is the stable sorted order, otherwise  *)
(* the order is implementation-defined; which pairs are handed to compare  *)
(* is implementation-defined in both cases.                                *)
(***************************************************************************)
Compares == {"byPosition", "alwaysPositive"}

\* compare(matrixA, matrixB, tag)
CompareResult(compare, A, B) ==
  CASE compare = "byPosition" -> A[1] - B[1]
    [] compare = "alwaysPositive" -> 1

ConsistentComparator(compare) == compare = "byPosition"

ItemOrders(n) ==
  {f \in [1..n -> 1..n] : \A i, j \in 1..n : i # j => f[i] # f[j]}

\* what items.sort(...) can leave behind: order[i] is originalIndex + 1 of
\* items[i - 1], needsReorder is whether some compare call returned > 0
ItemsSort(entry, compare) ==
  LET n == entry.count
      m(i) == getMatrixAt(entry.mesh, i - 1)
      result(i, j) == CompareResult(compare, m(i), m(j))
      pairs == {pr \in (1..n) \X (1..n) : pr[1] # pr[2]}
      stable(f) == \A i, j \in 1..n :
                      i < j => \/ result(f[i], f[j]) < 0
                               \/ result(f[i], f[j]) = 0 /\ f[i] < f[j]
      orders == IF ConsistentComparator(compare)
                THEN {f \in ItemOrders(n) : stable(f)}
                ELSE ItemOrders(n)
      flags == {b \in BOOLEAN :
                  /\ b => \E pr \in pairs : result(pr[1], pr[2]) > 0
                  /\ ~b => \E pr \in pairs : result(pr[1], pr[2]) <= 0}
  IN {[order |-> f, needsReorder |-> b] : f \in orders, b \in flags}

sortEntryInstancesKeepIndex(P, key, sorted) ==
  LET entry == P.entries[key]
      n == entry.count
      old(i) == getMatrixAt(entry.mesh, sorted.order[i] - 1)
      newMesh == [entry.mesh EXCEPT
                    !.instanceMatrix =
                       [i \in 1..Len(entry.mesh.instanceMatrix) |->
                          IF i <= n THEN ToFloat32(old(i))
                          ELSE entry.mesh.instanceMatrix[i]],
                    !.needsUpdate = TRUE]
      newHandlers == [i \in 1..Len(entry.handlers) |->
                        IF i <= n THEN entry.handlers[sorted.order[i]]
                        ELSE entry.handlers[i]]
  IN IF entry.count <= 1 \/ ~sorted.needsReorder
     THEN P
     ELSE [P EXCEPT !.entries[key] =
                        [entry EXCEPT !.mesh = newMesh, !.handlers = newHandlers]]

\* the pool after sortEntryInstances(entry, compare) when items.sort left
\* `sorted`
sortEntryInstances(P, key, sorted) ==
  LET entry == P.entries[key]
      n == entry.count
      old(i) == getMatrixAt(entry.mesh, sorted.order[i] - 1)
      newMesh == [entry.mesh EXCEPT
                    !.instanceMatrix =
                       [i \in 1..Len(entry.mesh.instanceMatrix) |->
                          IF i <= n THEN ToFloat32(old(i))
                          ELSE entry.mesh.instanceMatrix[i]],
                    !.needsUpdate = TRUE]
      newHandlers == [i \in 1..Len(entry.handlers) |->
                        IF i <= n THEN entry.handlers[sorted.order[i]]
                        ELSE entry.handlers[i]]
      newDescriptors ==
        [h \in DOMAIN P.descriptors |->
           IF \E i \in 1..n : newHandlers[i] = h
           THEN [P.descriptors[h] EXCEPT
                   !.index = (CHOOSE i \in 1..n :
                                /\ newHandlers[i] = h
                                /\ \A j \in (i + 1)..n : newHandlers[j] # h) - 1]
           ELSE P.descriptors[h]]
  IN IF entry.count <= 1 \/ ~sorted.needsReorder
     THEN P
     ELSE [P EXCEPT !.entries[key] =
                        [entry EXCEPT !.mesh = newMesh, !.handlers = newHandlers],
                    !.descriptors = newDescriptors]

\* the pools sortInstances(compare) can leave: one sortEntryInstances per
\* entry of `keys`
RECURSIVE sortInstances(_, _, _)
sortInstances(P, compare, keys) ==
  IF keys = {}
  THEN {P}
  ELSE LET key == CHOOSE k \in keys : TRUE
           outcomes == IF P.entries[key].count <= 1
                       THEN {[order |-> <<>>, needsReorder |-> FALSE]}
                       ELSE ItemsSort(P.entries[key], compare)
       IN UNION {sortInstances(sortEntryInstances(P, key, sorted), compare,
                               keys \ {key}) : sorted \in outcomes}

(***************************************************************************)
(* State.                                                                  *)
(***************************************************************************)
\* the fields of an InstancedMeshInstance before its constructor has run
NoInstance ==
  [created |-> FALSE, handler |-> 0,
   position |-> 0, quaternion |-> "qIdentity", scale |-> 1,
   matrix |-> IdentityMatrix,
   needsUpdateMatrixFromTransform |-> FALSE,
   needsUpdateTransformFromMatrix |-> FALSE,
   needsUpdateInstancedMatrixFromLocalMatrix |-> FALSE]

\* `last` records the call that led to the current state: its name, the live
\* handler it was made with (allocate: the handler returned), the key of the
\* entry it acted on, a flag (allocate: the entry was grown; deallocate: the
\* removed slot was not the last one; a setter: its flushTransform argument),
\* the instance the method was called on, the instances array of the group
\* it was called on, and the value returned (for
\* InstancedMeshGroup.flushTransform: the group's matrixWorld)
NoOperation == [op |-> "none", handler |-> 0, instance |-> 0, members |-> <<>>,
                key |-> <<>>, flag |-> FALSE, result |-> Undefined]

\* `landed` records, since the last dispose(), the pair every handler was
\* allocated with and the entry object that served it: entry objects are
\* numbered in the order getOrCreateEntry creates them
NoAllocations == [handlers |-> <<>>, objects |-> <<>>, created |-> 0]

\* new InstancedMeshPool(scene, {initialCapacity, capacityStep})
NewPool(initialCapacity, capacityStep) ==
  [initialCapacity |-> initialCapacity, capacityStep |-> capacityStep,
   entries |-> <<>>, descriptors |-> <<>>, nextHandler |-> 1,
   scene |-> {}, disposed |-> {}]

Init ==
  /\ \E o \in PoolOptions : pool = NewPool(o[1], o[2])
  /\ inst = [i \in 1..MaxInstances |-> NoInstance]
  /\ peak = <<>>
  /\ landed = NoAllocations
  /\ last = NoOperation

\* the highest count every entry has reached since it was created
PeakAfter(P) ==
  [k \in DOMAIN P.entries |->
     IF k \in DOMAIN peak /\ peak[k] > P.entries[k].count
     THEN peak[k] ELSE P.entries[k].count]

Handlers == 0..MaxHandlers

\* `last` names the handler of a call only when the handler was live
LiveOrNone(P, handler) == IF isValidHandler(P, handler) THEN handler ELSE 0

(***************************************************************************)
(* Actions of the pool API.                                                *)
(***************************************************************************)
Allocate(geometry, material) ==
  /\ pool.nextHandler <= MaxHandlers
  /\ LET key == Key(geometry, material)
         P1 == getOrCreateEntry(pool, geometry, material, "")
         P2 == allocate(pool, geometry, material, "")
     IN /\ pool' = P2
        /\ peak' = PeakAfter(P2)
        /\ last' = [NoOperation EXCEPT
                      !.op = "allocate", !.handler = pool.nextHandler, !.key = key,
                      !.flag = (P1.entries[key].count = P1.entries[key].capacity)]
  /\ UNCHANGED <<inst, landed>>

Deallocate(handler) ==
  /\ pool' = deallocate(pool, handler)
  /\ last' = [NoOperation EXCEPT
                !.op = "deallocate", !.handler = LiveOrNone(pool, handler),
                !.key = IF isValidHandler(pool, handler)
                        THEN pool.descriptors[handler].entry ELSE <<>>,
                !.flag = /\ isValidHandler(pool, handler)
                         /\ pool.descriptors[handler].index #
                              pool.entries[pool.descriptors[handler].entry].count - 1]
  /\ UNCHANGED <<inst, peak, landed>>

SetTransformMatrix(handler, M) ==
  /\ pool' = setTransformMatrix(pool, handler, M)
  /\ last' = [NoOperation EXCEPT !.op = "setTransformMatrix",
                                 !.handler = LiveOrNone(pool, handler)]
  /\ UNCHANGED <<inst, peak, landed>>

SortInstances(compare) ==
  /\ \E P \in sortInstances(pool, compare, DOMAIN pool.entries) : pool' = P
  /\ last' = [NoOperation EXCEPT !.op = "sortInstances"]
  /\ UNCHANGED <<inst, peak, landed>>

Dispose ==
  /\ pool' = dispose(pool)
  /\ peak' = <<>>
  /\ last' = [NoOperation EXCEPT !.op = "dispose"]
  /\ UNCHANGED <<inst, landed>>

Next ==
  \/ \E pr \in Pairs : Allocate(pr[1], pr[2])
  \/ \E h \in Handlers : Deallocate(h)
  \/ \E h \in Handlers, M \in Matrices \ {IdentityMatrix} : SetTransformMatrix(h, M)
  \/ \E c \in Compares : SortInstances(c)
  \/ Dispose

Spec == Init /\ [][Next]_vars

(***************************************************************************)
(* InstancedMeshInstance methods.  Each takes the instance record I and    *)
(* the pool P and yields [instance, pool] after the call.                  *)
(***************************************************************************)
isDestroyed(I) == I.handler < 0

updateTransformFromMatrixKeepFlag(I) ==
  IF I.needsUpdateTransformFromMatrix
  THEN [I EXCEPT !.position = Decompose(I.matrix).position,
                 !.quaternion = Decompose(I.matrix).quaternion,
                 !.scale = Decompose(I.matrix).scale]
  ELSE I

updateTransformFromMatrix(I) ==
  IF I.needsUpdateTransformFromMatrix
  THEN [I EXCEPT !.position = Decompose(I.matrix).position,
                 !.quaternion = Decompose(I.matrix).quaternion,
                 !.scale = Decompose(I.matrix).scale,
                 !.needsUpdateTransformFromMatrix = FALSE]
  ELSE I

updateMatrixFromTransform(I) ==
  IF I.needsUpdateMatrixFromTransform
  THEN [I EXCEPT !.matrix = Compose(I.position, I.quaternion, I.scale),
                 !.needsUpdateMatrixFromTransform = FALSE,
                 !.needsUpdateInstancedMatrixFromLocalMatrix = TRUE]
  ELSE I

flushTransformKeepDirty(I, P) ==
  IF I.handler < 0
  THEN [instance |-> I, pool |-> P]
  ELSE LET I1 == updateMatrixFromTransform(I)
       IN IF I1.needsUpdateInstancedMatrixFromLocalMatrix
          THEN [instance |-> I1,
                pool |-> setTransformMatrix(P, I1.handler, I1.matrix)]
          ELSE [instance |-> I1, pool |-> P]

flushTransform(I, P) ==
  IF I.handler < 0
  THEN [instance |-> I, pool |-> P]
  ELSE LET I1 == updateMatrixFromTransform(I)
       IN IF I1.needsUpdateInstancedMatrixFromLocalMatrix
          THEN [instance |-> [I1 EXCEPT
                                !.needsUpdateInstancedMatrixFromLocalMatrix = FALSE],
                pool |-> setTransformMatrix(P, I1.handler, I1.matrix)]
          ELSE [instance |-> I1, pool |-> P]

\* the common shape of setPosition / setQuaternion / setScale: `field` is
\* the component written
setComponent(I, P, field, source, flush) ==
  LET I1 == updateTransformFromMatrix(I)
      I2 == [I1 EXCEPT ![field] = source, !.needsUpdateMatrixFromTransform = TRUE]
  IN IF I1[field] # source
     THEN IF flush THEN flushTransform(I2, P) ELSE [instance |-> I2, pool |-> P]
     ELSE [instance |-> I1, pool |-> P]

setPosition(I, P, source, flush) == setComponent(I, P, "position", source, flush)

setQuaternion(I, P, source, flush) == setComponent(I, P, "quaternion", source, flush)

setScale(I, P, source, flush) == setComponent(I, P, "scale", source, flush)

setTransform(I, P, source, flush) ==
  LET I1 == updateMatrixFromTransform(I)
      I2 == [I1 EXCEPT !.matrix = source,
                       !.needsUpdateTransformFromMatrix = TRUE,
                       !.needsUpdateInstancedMatrixFromLocalMatrix = TRUE]
  IN IF I1.matrix # source
     THEN IF flush THEN flushTransform(I2, P) ELSE [instance |-> I2, pool |-> P]
     ELSE [instance |-> I1, pool |-> P]

destroyKeepHandler(I, P) ==
  IF I.handler >= 0
  THEN [instance |-> I, pool |-> deallocate(P, I.handler)]
  ELSE [instance |-> I, pool |-> P]

destroy(I, P) ==
  IF I.handler >= 0
  THEN [instance |-> [I EXCEPT !.handler = -1], pool |-> deallocate(P, I.handler)]
  ELSE [instance |-> I, pool |-> P]

\* new InstancedMeshInstance(pool, geometry, material, tag)
constructor(P, geometry, material, tag) ==
  [instance |-> [NoInstance EXCEPT !.created = TRUE, !.handler = P.nextHandler],
   pool |-> allocate(P, geometry, material, tag)]

(***************************************************************************)
(* InstancedMeshGroup: `members` is the instances array, S is [inst, pool].*)
(***************************************************************************)
RECURSIVE groupFlushTransform(_, _, _)
groupFlushTransform(S, members, matrixWorld) ==
  IF members = <<>>
  THEN S
  ELSE LET i == Head(members)
           r == setTransform(S.inst[i], S.pool, matrixWorld, TRUE)
       IN groupFlushTransform([inst |-> [S.inst EXCEPT ![i] = r.instance],
                               pool |-> r.pool],
                              Tail(members), matrixWorld)

groupDestroyFirstOnly(S, members) ==
  IF members = <<>>
  THEN S
  ELSE LET i == Head(members)
           r == destroy(S.inst[i], S.pool)
       IN [inst |-> [S.inst EXCEPT ![i] = r.instance], pool |-> r.pool]

RECURSIVE groupDestroy(_, _)
groupDestroy(S, members) ==
  IF members = <<>>
  THEN S
  ELSE LET i == Head(members)
           r == destroy(S.inst[i], S.pool)
       IN groupDestroy([inst |-> [S.inst EXCEPT ![i] = r.instance], pool |-> r.pool],
                       Tail(members))

(***************************************************************************)
(* Actions of the instance API.                                            *)
(***************************************************************************)
Instances == 1..MaxInstances

\* the (geometry, material) pairs instances are constructed with
InstancePairs == {<<"geometryA", "materialA">>}

Created == {i \in Instances : inst[i].created}

InitInstance ==
  /\ \E o \in InstancePoolOptions : pool = NewPool(o[1], o[2])
  /\ inst = [i \in Instances |-> NoInstance]
  /\ peak = <<>>
  /\ landed = NoAllocations
  /\ last = NoOperation

\* inst and pool after a method of instance i returned r
Returned(i, r) ==
  /\ inst' = [inst EXCEPT ![i] = r.instance]
  /\ pool' = r.pool
  /\ peak' = PeakAfter(r.pool)

Construct(i, geometry, material) ==
  /\ ~inst[i].created
  /\ \A j \in 1..(i - 1) : inst[j].created
  /\ pool.nextHandler <= MaxHandlers
  /\ Returned(i, constructor(pool, geometry, material, ""))
  /\ UNCHANGED <<landed, last>>

Destroy(i) ==
  /\ inst[i].created
  /\ Returned(i, destroy(inst[i], pool))
  /\ UNCHANGED <<landed, last>>

SetPosition(i, source, flush) ==
  /\ inst[i].created
  /\ Returned(i, setPosition(inst[i], pool, source, flush))
  /\ UNCHANGED <<landed, last>>

SetQuaternion(i, source, flush) ==
  /\ inst[i].created
  /\ Returned(i, setQuaternion(inst[i], pool, source, flush))
  /\ UNCHANGED <<landed, last>>

SetScale(i, source, flush) ==
  /\ inst[i].created
  /\ Returned(i, setScale(inst[i], pool, source, flush))
  /\ UNCHANGED <<landed, last>>

SetTransform(i, source, flush) ==
  /\ inst[i].created
  /\ Returned(i, setTransform(inst[i], pool, source, flush))
  /\ UNCHANGED <<landed, last>>

FlushTransform(i) ==
  /\ inst[i].created
  /\ Returned(i, flushTransform(inst[i], pool))
  /\ UNCHANGED <<landed, last>>

\* the instances arrays a group is constructed with
GroupMembers == {<<1>>, <<1, 2>>, <<2, 2>>}

\* new InstancedMeshGroup(members).flushTransform(), the scene graph giving
\* the group the world matrix matrixWorld
GroupFlushTransform(members, matrixWorld) ==
  /\ \A k \in 1..Len(members) : members[k] \in Created
  /\ LET S == groupFlushTransform([inst |-> inst, pool |-> pool], members, matrixWorld)
     IN /\ inst' = S.inst
        /\ pool' = S.pool
  /\ UNCHANGED <<peak, landed, last>>

\* new InstancedMeshGroup(members).destroy()
GroupDestroy(members) ==
  /\ \A k \in 1..Len(members) : members[k] \in Created
  /\ LET S == groupDestroy([inst |-> inst, pool |-> pool], members)
     IN /\ inst' = S.inst
        /\ pool' = S.pool
  /\ UNCHANGED <<peak, landed, last>>

\* pool.deallocate / setTransformMatrix / getTransformMatrix called with a
\* handler that is not live (never issued, or deallocated before)
StaleDeallocate(handler) ==
  /\ ~isValidHandler(pool, handler)
  /\ pool' = deallocate(pool, handler)
  /\ UNCHANGED <<inst, peak, landed, last>>

StaleSetTransformMatrix(handler, M) ==
  /\ ~isValidHandler(pool, handler)
  /\ pool' = setTransformMatrix(pool, handler, M)
  /\ UNCHANGED <<inst, peak, landed, last>>

StaleGetTransformMatrix(handler) ==
  /\ ~isValidHandler(pool, handler)
  /\ UNCHANGED <<pool, inst, peak, landed, last>>

\* pool.sortInstances(compare) and pool.dispose() beside the instance API
PoolSortInstances(compare) ==
  /\ \E P \in sortInstances(pool, compare, DOMAIN pool.entries) : pool' = P
  /\ UNCHANGED <<inst, peak, landed, last>>

PoolDispose ==
  /\ pool' = dispose(pool)
  /\ peak' = <<>>
  /\ UNCHANGED <<inst, landed, last>>

NextInstance ==
  \/ \E i \in Instances, pr \in InstancePairs : Construct(i, pr[1], pr[2])
  \/ \E i \in Instances : Destroy(i)
  \/ \E i \in Instances, p \in Positions, f \in BOOLEAN : SetPosition(i, p, f)
  \/ \E i \in Instances, q \in Quaternions, f \in BOOLEAN : SetQuaternion(i, q, f)
  \/ \E i \in Instances, s \in Scales, f \in BOOLEAN : SetScale(i, s, f)
  \/ \E i \in Instances, M \in Matrices, f \in BOOLEAN : SetTransform(i, M, f)
  \/ \E i \in Instances : FlushTransform(i)
  \/ \E members \in GroupMembers, W \in Matrices : GroupFlushTransform(members, W)
  \/ \E members \in GroupMembers : GroupDestroy(members)
  \/ \E h \in Handlers : StaleDeallocate(h)
  \/ \E h \in Handlers, M \in Matrices : StaleSetTransformMatrix(h, M)
  \/ \E h \in Handlers : StaleGetTransformMatrix(h)
  \/ \E c \in Compares : PoolSortInstances(c)
  \/ PoolDispose

SpecInstance == InitInstance /\ [][NextInstance]_vars

(***************************************************************************)
(* Properties of the swap-compact pool.                                    *)
(***************************************************************************)
LiveHandlers(P) == DOMAIN P.descriptors

LiveIn(P, key) == {h \in DOMAIN P.descriptors : P.descriptors[h].entry = key}

\* C1: in every reachable state and for every entry, handlers[0..count-1]
\* are pairwise distinct live handlers, the descriptor of handlers[i] is
\* (this entry, i), every live descriptor of the entry sits at one i < count,
\* and mesh.count = count: the drawn range is exactly the live slots.
C1_CompactSlots ==
  \A key \in DOMAIN pool.entries :
    LET entry == pool.entries[key]
    IN /\ entry.count >= 0
       /\ entry.count <= Len(entry.handlers)
       /\ entry.mesh.count = entry.count
       /\ \A i \in 1..entry.count :
            /\ isValidHandler(pool, entry.handlers[i])
            /\ pool.descriptors[entry.handlers[i]] = [entry |-> key, index |-> i - 1]
            /\ \A j \in 1..entry.count : i # j => entry.handlers[i] # entry.handlers[j]
       /\ \A h \in LiveIn(pool, key) :
            /\ pool.descriptors[h].index >= 0
            /\ pool.descriptors[h].index < entry.count
            /\ entry.handlers[pool.descriptors[h].index + 1] = h
       /\ Cardinality(LiveIn(pool, key)) = entry.count

\* a swap-with-last deallocation has just compacted an entry that was grown
\* and still holds two live handlers
C1_Witness ==
  /\ last.op = "deallocate" /\ last.flag
  /\ last.key \in DOMAIN pool.entries
  /\ pool.entries[last.key].count >= 2
  /\ pool.entries[last.key].capacity > pool.initialCapacity

\* C2: with initialCapacity >= 0 and capacityStep >= 1, every entry has
\* 0 <= count <= capacity and every live descriptor's index is < capacity.
C2_CountWithinCapacity ==
  /\ \A key \in DOMAIN pool.entries :
       /\ 0 <= pool.entries[key].count
       /\ pool.entries[key].count <= pool.entries[key].capacity
  /\ \A h \in LiveHandlers(pool) :
       /\ pool.descriptors[h].entry \in DOMAIN pool.entries
       /\ pool.descriptors[h].index < pool.entries[pool.descriptors[h].entry].capacity

\* an allocation has just grown an entry
C2_Witness ==
  /\ last.op = "allocate" /\ last.flag
  /\ pool.entries[last.key].count >= 2
  /\ pool.descriptors[last.handler].index = pool.entries[last.key].count - 1

\* C3: deallocating a live handler A leaves every other live handler B valid
\* with the same matrix read through it, lowers the count and mesh.count of
\* A's entry by one and leaves the other entries' counts alone.
C3_DeallocateFrame ==
  [][(last'.op = "deallocate" /\ isValidHandler(pool, last'.handler)) =>
       LET A == last'.handler
           keyA == pool.descriptors[A].entry
       IN /\ ~isValidHandler(pool', A)
          /\ \A B \in LiveHandlers(pool) \ {A} :
               /\ isValidHandler(pool', B)
               /\ getTransformMatrix(pool', B) = getTransformMatrix(pool, B)
          /\ DOMAIN pool'.entries = DOMAIN pool.entries
          /\ pool'.entries[keyA].count = pool.entries[keyA].count - 1
          /\ pool'.entries[keyA].mesh.count = pool.entries[keyA].mesh.count - 1
          /\ \A key \in DOMAIN pool.entries \ {keyA} :
               /\ pool'.entries[key].count = pool.entries[key].count
               /\ pool'.entries[key].mesh.count = pool.entries[key].mesh.count
    ]_vars

\* a deallocation has just moved the last handler, whose matrix is not the
\* identity, into the freed slot
C3_Witness ==
  /\ last.op = "deallocate" /\ last.flag
  /\ \E B \in LiveIn(pool, last.key) : getTransformMatrix(pool, B) # IdentityMatrix

\* C4: when allocate grows an entry, every handler that was live before the
\* call keeps its descriptor (entry and slot index) and the matrix read
\* through it.
C4_GrowthKeepsTransforms ==
  [][(last'.op = "allocate" /\ last'.flag) =>
       \A h \in LiveHandlers(pool) :
         /\ isValidHandler(pool', h)
         /\ pool'.descriptors[h] = pool.descriptors[h]
         /\ getTransformMatrix(pool', h) = getTransformMatrix(pool, h)
    ]_vars

\* an allocation has just grown an entry that holds an older handler whose
\* matrix was written before
C4_Witness ==
  /\ last.op = "allocate" /\ last.flag
  /\ \E h \in LiveIn(pool, last.key) :
       h # last.handler /\ getTransformMatrix(pool, h) # IdentityMatrix

\* ceil(a / b) for a >= 0, b >= 1
CeilDiv(a, b) == (a + b - 1) \div b

Max(a, b) == IF a >= b THEN a ELSE b

CapacityFormula ==
  \A key \in DOMAIN pool.entries :
    /\ key \in DOMAIN peak
    /\ pool.entries[key].capacity =
         pool.initialCapacity
           + pool.capacityStep
               * CeilDiv(Max(0, peak[key] - pool.initialCapacity), pool.capacityStep)
    /\ Len(pool.entries[key].mesh.instanceMatrix) = pool.entries[key].capacity

\* C5: allocate grows the entry iff its count equals its capacity before the
\* call, and then by exactly capacityStep; so the capacity always equals
\* initialCapacity + capacityStep * ceil(max(0, peak - initialCapacity) / capacityStep).
C5_GrowthStep ==
  [][/\ last'.op = "allocate" =>
          LET key == last'.key
              existed == key \in DOMAIN pool.entries
              count0 == IF existed THEN pool.entries[key].count ELSE 0
              capacity0 == IF existed THEN pool.entries[key].capacity
                           ELSE pool.initialCapacity
          IN pool'.entries[key].capacity =
               IF count0 = capacity0 THEN capacity0 + pool.capacityStep ELSE capacity0
     /\ CapacityFormula'
    ]_vars

\* initialCapacity = 2 and three live handlers on one key after one growth
C5_Witness ==
  /\ pool.initialCapacity = 2
  /\ last.op = "allocate" /\ last.flag
  /\ pool.entries[last.key].count = 3
  /\ pool.entries[last.key].capacity = 2 + pool.capacityStep
  /\ Cardinality(LiveIn(pool, last.key)) = 3

(***************************************************************************)
(* The entry map, driven with every (geometry, material) pair.             *)
(***************************************************************************)
\* `landed` after allocate(geometry, material) took pool P to P2: P1 is the
\* pool after the call's getOrCreateEntry
LandedAfter(P, P1, P2, geometry, material) ==
  LET key == P2.descriptors[P.nextHandler].entry
      isNew == key \notin DOMAIN landed.objects \/ P1 # P
      object == IF isNew THEN landed.created + 1 ELSE landed.objects[key]
  IN [handlers |-> (P.nextHandler :> [geometry |-> geometry, material |-> material,
                                       object |-> object]) @@ landed.handlers,
      objects |-> (key :> object) @@ landed.objects,
      created |-> IF isNew THEN landed.created + 1 ELSE landed.created]

TrackedAllocate(geometry, material) ==
  /\ pool.nextHandler <= MaxHandlers
  /\ pool' = allocate(pool, geometry, material, "")
  /\ peak' = PeakAfter(pool')
  /\ landed' = LandedAfter(pool, getOrCreateEntry(pool, geometry, material, ""),
                           pool', geometry, material)
  /\ UNCHANGED <<inst, last>>

TrackedDeallocate(handler) ==
  /\ pool' = deallocate(pool, handler)
  /\ UNCHANGED <<inst, peak, landed, last>>

TrackedDispose ==
  /\ pool' = dispose(pool)
  /\ peak' = <<>>
  /\ landed' = NoAllocations
  /\ UNCHANGED <<inst, last>>

NextKeys ==
  \/ \E g \in Geometries, m \in Materials : TrackedAllocate(g, m)
  \/ \E h \in Handlers : TrackedDeallocate(h)
  \/ TrackedDispose

SpecKeys == Init /\ [][NextKeys]_vars

(***************************************************************************)
(* Properties of instances and groups on the pool.                         *)
(***************************************************************************)
\* the cache of an instance on which no setter has taken effect
Pristine(I) == I = [NoInstance EXCEPT !.created = TRUE, !.handler = I.handler]

LiveInstance(i) ==
  inst[i].created /\ ~isDestroyed(inst[i]) /\ isValidHandler(pool, inst[i].handler)

\* C6: the buffer slot of a newly allocated instance holds the identity
\* matrix, also when the slot was used by a destroyed instance before, and
\* still does after flushTransform() with no setter call.
C6_NewSlotIsIdentity ==
  \A i \in Instances :
    (LiveInstance(i) /\ Pristine(inst[i])) =>
      /\ getTransformMatrix(pool, inst[i].handler) = IdentityMatrix
      /\ getTransformMatrix(flushTransform(inst[i], pool).pool, inst[i].handler)
           = IdentityMatrix

SetterResults(I, P) ==
  {setPosition(I, P, p, f) : p \in Positions, f \in BOOLEAN}
    \cup {setQuaternion(I, P, q, f) : q \in Quaternions, f \in BOOLEAN}
    \cup {setScale(I, P, s, f) : s \in Scales, f \in BOOLEAN}
    \cup {setTransform(I, P, M, f) : M \in Matrices, f \in BOOLEAN}
    \cup {flushTransform(I, P)}

\* C7: destroy() leaves the instance destroyed, a destroyed instance stays
\* destroyed in every later state, and no setter, setTransform or
\* flushTransform call on it (flushing or not) changes the pool.
C7_DestroyedStaysInert ==
  /\ [](\A i \in Instances :
          /\ inst[i].created => isDestroyed(destroy(inst[i], pool).instance)
          /\ (inst[i].created /\ isDestroyed(inst[i])) =>
               \A r \in SetterResults(inst[i], pool) :
                 isDestroyed(r.instance) /\ r.pool = pool)
  /\ [][\A i \in Instances :
          (inst[i].created /\ isDestroyed(inst[i])) => isDestroyed(inst'[i])
       ]_vars

\* instance 1 is destroyed with an edit pending in its cache while a newer
\* instance holds slot 0, and a flushing setter on instance 1 takes effect
\* on its cache
C7_Witness ==
  /\ inst[1].created /\ isDestroyed(inst[1])
  /\ LiveInstance(2) /\ pool.descriptors[inst[2].handler].index = 0
  /\ inst[1].needsUpdateMatrixFromTransform
  /\ \E p \in Positions : setPosition(inst[1], pool, p, TRUE).instance # inst[1]

\* C8: deallocate, setTransformMatrix and getTransformMatrix called with a
\* handler that is not live change nothing (getTransformMatrix returns
\* undefined), and a second destroy() changes nothing in the pool.
C8_NotLiveIsNoOp ==
  /\ \A h \in Handlers \cup {-1} :
       ~isValidHandler(pool, h) =>
         /\ deallocate(pool, h) = pool
         /\ \A M \in Matrices : setTransformMatrix(pool, h, M) = pool
         /\ getTransformMatrix(pool, h) = Undefined
  /\ \A i \in Instances :
       inst[i].created =>
         LET first == destroy(inst[i], pool)
             second == destroy(first.instance, first.pool)
         IN /\ second = first
            /\ isDestroyed(inst[i]) => first.pool = pool

\* an instance was destroyed, its handler is stale, and the entry it lived
\* in still holds a live instance
C8_Witness ==
  /\ \E i \in Instances : inst[i].created /\ isDestroyed(inst[i])
  /\ \E h \in Handlers : h >= 1 /\ h < pool.nextHandler /\ ~isValidHandler(pool, h)
  /\ \E key \in DOMAIN pool.entries :
       pool.entries[key].count >= 1 /\ ~pool.entries[key].mesh.needsUpdate

\* C9: since the last dispose(), two allocations were served by the same
\* entry object iff they had the same geometry and the same material, every
\* handler's descriptor names the entry of its pair, and there are as many
\* entries as distinct pairs allocated.
C9_OneEntryPerPair ==
  /\ \A h1, h2 \in DOMAIN landed.handlers :
       (landed.handlers[h1].object = landed.handlers[h2].object)
         <=> (/\ landed.handlers[h1].geometry = landed.handlers[h2].geometry
              /\ landed.handlers[h1].material = landed.handlers[h2].material)
  /\ \A h \in LiveHandlers(pool) :
       /\ h \in DOMAIN landed.handlers
       /\ pool.entries[pool.descriptors[h].entry].geometry = landed.handlers[h].geometry
       /\ pool.entries[pool.descriptors[h].entry].material = landed.handlers[h].material
  /\ Cardinality(DOMAIN pool.entries)
       = Cardinality({<<landed.handlers[h].geometry, landed.handlers[h].material>> :
                        h \in DOMAIN landed.handlers})
  /\ Cardinality(DOMAIN pool.entries) = landed.created

\* a pair was allocated again after its entry's count had dropped to 0,
\* and a pair that differs only in material has an entry too
C9_Witness ==
  \E h1, h2, h3 \in DOMAIN landed.handlers :
    /\ h1 < h2
    /\ landed.handlers[h1].geometry = landed.handlers[h2].geometry
    /\ landed.handlers[h1].material = landed.handlers[h2].material
    /\ ~isValidHandler(pool, h1) /\ isValidHandler(pool, h2)
    /\ pool.entries[pool.descriptors[h2].entry].count = 1
    /\ landed.handlers[h3].geometry = landed.handlers[h1].geometry
    /\ landed.handlers[h3].material # landed.handlers[h1].material
    /\ Cardinality(DOMAIN pool.entries) = 2

\* C10: after InstancedMeshGroup.flushTransform() the buffer slot of every
\* member that is not destroyed holds the group's world matrix (as stored
\* in the Float32Array), whatever the member's state before.
C10_GroupFlushReachesBuffer ==
  \A members \in GroupMembers, W \in Matrices :
    (\A k \in 1..Len(members) : members[k] \in Created) =>
      LET S == groupFlushTransform([inst |-> inst, pool |-> pool], members, W)
      IN \A k \in 1..Len(members) :
           LET I == S.inst[members[k]]
           IN (~isDestroyed(I) /\ isValidHandler(S.pool, I.handler)) =>
                getTransformMatrix(S.pool, I.handler) = ToFloat32(W)

(***************************************************************************)
(* Batching of transform edits.                                            *)
(***************************************************************************)
\* the pool after the renderer has uploaded every instanceMatrix: a later
\* `instanceMatrix.needsUpdate = true` is then visible in the pool record
Uploaded(P) ==
  [P EXCEPT !.entries =
     [k \in DOMAIN P.entries |-> [P.entries[k] EXCEPT !.mesh.needsUpdate = FALSE]]]

\* the setter calls whose `if` finds the value different from the cached one
EffectiveResults(I, P) ==
  {setPosition(I, P, p, f) :
     p \in {x \in Positions : updateTransformFromMatrix(I).position # x},
     f \in BOOLEAN}
    \cup {setQuaternion(I, P, q, f) :
             q \in {x \in Quaternions : updateTransformFromMatrix(I).quaternion # x},
             f \in BOOLEAN}
    \cup {setScale(I, P, s, f) :
             s \in {x \in Scales : updateTransformFromMatrix(I).scale # x},
             f \in BOOLEAN}
    \cup {setTransform(I, P, M, f) :
             M \in {x \in Matrices : updateMatrixFromTransform(I).matrix # x},
             f \in BOOLEAN}

\* no edit is waiting in the cache of I for the next flushTransform()
Flushed(I) ==
  /\ ~I.needsUpdateMatrixFromTransform
  /\ ~I.needsUpdateInstancedMatrixFromLocalMatrix

\* C11: a setter called with flushTransform = false leaves the pool as it
\* is; flushTransform() makes at most one setTransformMatrix call, with the
\* composed matrix, and leaves no edit waiting; and while no edit is waiting
\* (no setter found a different value since the last flush) flushTransform()
\* writes nothing and every setter that is not effective keeps it so.
C11_EditsAreBatched ==
  \A i \in Created :
    LET I == inst[i]
        P == Uploaded(pool)
        flushed == flushTransform(I, P)
    IN /\ \A p \in Positions : setPosition(I, P, p, FALSE).pool = P
       /\ \A q \in Quaternions : setQuaternion(I, P, q, FALSE).pool = P
       /\ \A s \in Scales : setScale(I, P, s, FALSE).pool = P
       /\ \A M \in Matrices : setTransform(I, P, M, FALSE).pool = P
       /\ \/ flushed.pool = P
          \/ flushed.pool = setTransformMatrix(P, I.handler, flushed.instance.matrix)
       /\ ~isDestroyed(I) =>
            /\ Flushed(flushed.instance)
            /\ flushTransform(flushed.instance, Uploaded(flushed.pool)).pool
                 = Uploaded(flushed.pool)
       /\ Flushed(I) =>
            /\ flushed.pool = P
            /\ \A r \in SetterResults(I, P) \ EffectiveResults(I, P) :
                 Flushed(r.instance) /\ r.pool = P

\* a live instance holds two edits made without flushing (position and
\* quaternion), and the buffer slot and its dirty flag are still untouched
C11_Witness ==
  /\ LiveInstance(1)
  /\ inst[1].needsUpdateMatrixFromTransform
  /\ inst[1].position = BigCoordinate
  /\ inst[1].quaternion = "qNegIdentity"
  /\ getTransformMatrix(pool, inst[1].handler) = IdentityMatrix
  /\ ~pool.entries[pool.descriptors[inst[1].handler].entry].mesh.needsUpdate
  /\ flushTransform(inst[1], pool).pool # pool

\* C12: for every constructed instance, isDestroyed() is true exactly when
\* the pool holds no slot for its handler (isValidHandler is false).
C12_IsDestroyedReportsValidity ==
  \A i \in Created :
    isDestroyed(inst[i]) <=> ~isValidHandler(pool, inst[i].handler)

(***************************************************************************)
(* The meshes in the scene.                                                *)
(***************************************************************************)
\* the handlers allocate() has returned so far
Issued(P) == 1..(P.nextHandler - 1)

\* C13: a dispose() step leaves no entry and no descriptor, takes every mesh
\* the pool had in the scene out of it and disposes it, and leaves
\* isValidHandler false for every handler issued before; the meshes in the
\* scene are at all times exactly the current meshes of the entries, and a
\* mesh that leaves the scene (replaced by growEntry, or at dispose) is
\* disposed and stays so.
C13_DisposeReleasesAll ==
  [][/\ last'.op = "dispose" =>
          /\ pool'.entries = <<>>
          /\ pool'.descriptors = <<>>
          /\ pool'.scene = {}
          /\ pool.scene \subseteq pool'.disposed
          /\ EntryMeshes(pool) \subseteq pool'.disposed
          /\ \A h \in Issued(pool) : ~isValidHandler(pool', h)
     /\ pool'.scene = EntryMeshes(pool')
     /\ pool'.scene \cap pool'.disposed = {}
     /\ (pool.scene \ pool'.scene) \subseteq pool'.disposed
     /\ pool.disposed \subseteq pool'.disposed
    ]_vars

\* dispose() has just run on a pool that had issued three handlers and held
\* two entries, one of them grown: the first mesh of the grown entry, its
\* current mesh and the other entry's mesh are disposed
C13_Witness ==
  /\ last.op = "dispose"
  /\ pool.nextHandler = 4
  /\ pool.scene = {}
  /\ Cardinality(pool.disposed) >= 3
  /\ \E h \in Issued(pool) :
       /\ <<h, "grown">> \in pool.disposed
       /\ \E g \in Issued(pool) : g <= h /\ <<g, "entry">> \in pool.disposed
       /\ \E g \in Issued(pool) : g > h /\ <<g, "entry">> \in pool.disposed

(***************************************************************************)
(* The transform cache of an instance.                                     *)
(***************************************************************************)
\* C14: in every reachable state no instance has both
\* needsUpdateMatrixFromTransform and needsUpdateTransformFromMatrix set.
C14_OneSideStale ==
  \A i \in Instances :
    ~(inst[i].needsUpdateMatrixFromTransform /\ inst[i].needsUpdateTransformFromMatrix)

\* setTransform made the decomposed transform stale, then setPosition
\* decomposed the matrix and made the matrix stale instead
C14_Witness ==
  \E i \in Created :
    /\ inst[i].needsUpdateMatrixFromTransform
    /\ ~inst[i].needsUpdateTransformFromMatrix
    /\ inst[i].matrix[1] = BigCoordinate
    /\ inst[i].position = 0

\* C15: for a live instance, setPosition(p) followed by flushTransform()
\* leaves in its buffer slot the matrix compose(p, q, s) (as the Float32Array
\* stores it), q and s being the rotation and scale last set on the instance
\* or decomposed from the matrix of a later setTransform.
C15_SetPositionThenFlush ==
  \A i \in Instances, p \in Positions :
    LiveInstance(i) =>
      LET known == updateTransformFromMatrix(inst[i])
          moved == setPosition(inst[i], pool, p, FALSE)
          flushed == flushTransform(moved.instance, moved.pool)
      IN getTransformMatrix(flushed.pool, inst[i].handler)
           = ToFloat32(Compose(p, known.quaternion, known.scale))

(***************************************************************************)
(* Frame of setTransformMatrix.                                            *)
(***************************************************************************)
\* setTransformMatrix(handler, M) on pool P leaves `value` in the slot of
\* the handler, raises the dirty flag of its entry and changes nothing else
SetTransformMatrixEffect(P, handler, M, value) ==
  LET Q == setTransformMatrix(P, handler, M)
      key == P.descriptors[handler].entry
      index == P.descriptors[handler].index
      before == P.entries[key]
      after == Q.entries[key]
  IN /\ DOMAIN Q.entries = DOMAIN P.entries
     /\ getMatrixAt(after.mesh, index) = value
     /\ after.mesh.needsUpdate
     /\ Len(after.mesh.instanceMatrix) = Len(before.mesh.instanceMatrix)
     /\ \A j \in 0..(Len(before.mesh.instanceMatrix) - 1) :
          j # index => getMatrixAt(after.mesh, j) = getMatrixAt(before.mesh, j)
     /\ [after EXCEPT !.mesh = before.mesh] = before
     /\ [after.mesh EXCEPT !.instanceMatrix = before.mesh.instanceMatrix,
                           !.needsUpdate = before.mesh.needsUpdate] = before.mesh
     /\ \A k \in DOMAIN P.entries \ {key} : Q.entries[k] = P.entries[k]
     /\ [Q EXCEPT !.entries = P.entries] = P

\* C16 (as stated): setTransformMatrix(handler, M) on a live handler sets
\* exactly the slot at the handler's index to M, raises needsUpdate and
\* changes nothing else.
C16_SlotHoldsArgument ==
  \A h \in LiveHandlers(pool), M \in Matrices :
    SetTransformMatrixEffect(pool, h, M, M)

\* C16 (amended): setTransformMatrix(handler, M) on a live handler sets
\* exactly the slot at the handler's index to M rounded to float32, raises
\* needsUpdate and changes nothing else: every other slot of the entry,
\* every other entry, and all counts, capacities, handlers and descriptors
\* are unchanged.
C16_SetTransformMatrixFrame ==
  \A h \in LiveHandlers(pool), M \in Matrices :
    SetTransformMatrixEffect(pool, h, M, ToFloat32(M))

\* setTransformMatrix has just written the slot of one of two live handlers
\* of an entry while another entry exists; the other slot is untouched
C16_Witness ==
  /\ last.op = "setTransformMatrix"
  /\ isValidHandler(pool, last.handler)
  /\ getTransformMatrix(pool, last.handler) = ToFloat32(<<BigCoordinate, "rIdentity", 1>>)
  /\ \E h \in LiveIn(pool, pool.descriptors[last.handler].entry) :
       h # last.handler /\ getTransformMatrix(pool, h) = IdentityMatrix
  /\ Cardinality(DOMAIN pool.entries) = 2

(***************************************************************************)
(* sortMeshes and the render metadata of the meshes.                       *)
(***************************************************************************)
\* the first render order sortMeshes is called with
BaseRenderOrders == {10}

\* the comparators sortMeshes is called with: both order the entries by the
\* uuids of their geometry and material, so no two entries compare equal
MeshCompares == {"byUuid", "byUuidDescending"}

\* position of a uuid in string order
UuidRank(x) ==
  CASE x = "geometryA" -> 1
    [] x = "geometryB" -> 2
    [] x = "materialA" -> 1
    [] x = "materialB" -> 2

\* compare(a.mesh, a.tag, b.mesh, b.tag)
CompareMeshes(compare, a, b) ==
  LET rank(mesh) == 2 * UuidRank(mesh.geometry) + UuidRank(mesh.material)
  IN IF compare = "byUuid"
     THEN rank(a.mesh) - rank(b.mesh)
     ELSE rank(b.mesh) - rank(a.mesh)

\* the pool after sortMeshes(baseRenderOrder, compare): the entry at
\* position n of the sorted array gets renderOrder baseRenderOrder + n
sortMeshes(P, baseRenderOrder, compare) ==
  LET before(k) == {j \in DOMAIN P.entries :
                      CompareMeshes(compare, P.entries[j], P.entries[k]) < 0}
  IN [P EXCEPT !.entries =
        [k \in DOMAIN P.entries |->
           [P.entries[k] EXCEPT
              !.mesh.renderOrder = baseRenderOrder + Cardinality(before(k))]]]

\* the options of the pool sortMeshes is driven on
MeshPoolOptions == {<<1, 1>>}

InitMeshes ==
  /\ \E o \in MeshPoolOptions : pool = NewPool(o[1], o[2])
  /\ inst = [i \in 1..MaxInstances |-> NoInstance]
  /\ peak = <<>>
  /\ landed = NoAllocations
  /\ last = NoOperation

SortMeshes(baseRenderOrder, compare) ==
  /\ pool' = sortMeshes(pool, baseRenderOrder, compare)
  /\ UNCHANGED <<inst, peak, landed, last>>

NextMeshes ==
  \/ NextKeys
  \/ \E b \in BaseRenderOrders, c \in MeshCompares : SortMeshes(b, c)

SpecMeshes == InitMeshes /\ [][NextMeshes]_vars

\* C17: growEntry on a full entry gives it a new mesh with the renderOrder,
\* geometry and material of the mesh it replaces, mesh.count equal to the
\* entry's count and a buffer of exactly capacity + capacityStep slots; and
\* so does an allocate call that grows.
C17_GrowthKeepsRenderMetadata ==
  /\ \A key \in DOMAIN pool.entries :
       LET before == pool.entries[key]
           after == growEntry(pool, key).entries[key]
       IN before.count = before.capacity =>
            /\ after.mesh.id # before.mesh.id
            /\ after.mesh.renderOrder = before.mesh.renderOrder
            /\ after.mesh.geometry = before.mesh.geometry
            /\ after.mesh.material = before.mesh.material
            /\ after.geometry = before.geometry /\ after.material = before.material
            /\ after.mesh.count = after.count /\ after.count = before.count
            /\ after.capacity = before.capacity + pool.capacityStep
            /\ Len(after.mesh.instanceMatrix) = before.capacity + pool.capacityStep
  /\ \A g \in Geometries, m \in Materials :
       LET key == Key(g, m)
           P1 == getOrCreateEntry(pool, g, m, "")
           before == P1.entries[key]
           after == allocate(pool, g, m, "").entries[key]
       IN before.count = before.capacity =>
            /\ after.mesh.id # before.mesh.id
            /\ after.mesh.renderOrder = before.mesh.renderOrder
            /\ after.mesh.geometry = g /\ after.mesh.material = m
            /\ after.mesh.count = after.count
            /\ Len(after.mesh.instanceMatrix) = before.capacity + pool.capacityStep

\* an entry that sortMeshes had placed second was grown afterwards: its
\* grown mesh carries render order 11 and the entry is full again
C17_Witness ==
  \E key \in DOMAIN pool.entries :
    /\ pool.entries[key].mesh.id[2] = "grown"
    /\ pool.entries[key].mesh.renderOrder = 11
    /\ pool.entries[key].capacity = pool.initialCapacity + pool.capacityStep
    /\ pool.entries[key].count = pool.entries[key].capacity

(***************************************************************************)
(* Capacity over time.                                                     *)
(***************************************************************************)
\* C18: every step other than dispose() keeps every entry, with a capacity
\* equal or larger; every step other than an allocate leaves its capacity,
\* its mesh object and its buffer length as they are, so an entry whose count
\* dropped to 0 is neither removed nor shrunk.
C18_CapacityNeverShrinks ==
  [][last'.op # "dispose" =>
       \A key \in DOMAIN pool.entries :
         /\ key \in DOMAIN pool'.entries
         /\ pool'.entries[key].capacity >= pool.entries[key].capacity
         /\ Len(pool'.entries[key].mesh.instanceMatrix)
              >= Len(pool.entries[key].mesh.instanceMatrix)
         /\ last'.op # "allocate" =>
              /\ pool'.entries[key].capacity = pool.entries[key].capacity
              /\ pool'.entries[key].mesh.id = pool.entries[key].mesh.id
              /\ Len(pool'.entries[key].mesh.instanceMatrix)
                   = Len(pool.entries[key].mesh.instanceMatrix)
    ]_vars

\* a deallocation has just emptied an entry that had been grown: the entry
\* is still there with its grown capacity and mesh
C18_Witness ==
  /\ last.op = "deallocate"
  /\ last.key \in DOMAIN pool.entries
  /\ pool.entries[last.key].count = 0
  /\ pool.entries[last.key].capacity > pool.initialCapacity
  /\ pool.entries[last.key].mesh.id[2] = "grown"
  /\ pool.entries[last.key].mesh.id \in pool.scene
  /\ Cardinality(DOMAIN pool.entries) = 2

(***************************************************************************)
(* InstancedMeshGroup.destroy.                                             *)
(***************************************************************************)
\* the instances named in the instances array of a group
MembersOf(members) == {members[k] : k \in 1..Len(members)}

\* C19: after InstancedMeshGroup.destroy() every member is destroyed and
\* its handler unknown to the pool, every entry's count has dropped by the
\* number of distinct members that were live in it, also when members were
\* destroyed before or appear twice, and every instance outside the group
\* is as before: valid, same cache, same matrix in the buffer.
C19_GroupDestroy ==
  \A members \in GroupMembers :
    (MembersOf(members) \subseteq Created) =>
      LET S == groupDestroy([inst |-> inst, pool |-> pool], members)
          gone == {inst[i].handler : i \in {j \in MembersOf(members) : LiveInstance(j)}}
      IN /\ \A i \in MembersOf(members) :
              /\ isDestroyed(S.inst[i])
              /\ ~isValidHandler(S.pool, S.inst[i].handler)
              /\ ~isValidHandler(S.pool, inst[i].handler)
         /\ DOMAIN S.pool.entries = DOMAIN pool.entries
         /\ \A key \in DOMAIN pool.entries :
              /\ S.pool.entries[key].count
                   = pool.entries[key].count - Cardinality(gone \cap LiveIn(pool, key))
              /\ S.pool.entries[key].mesh.count = S.pool.entries[key].count
         /\ LiveHandlers(S.pool) = LiveHandlers(pool) \ gone
         /\ \A i \in Created \ MembersOf(members) :
              /\ S.inst[i] = inst[i]
              /\ LiveInstance(i) =>
                   /\ isValidHandler(S.pool, inst[i].handler)
                   /\ getTransformMatrix(S.pool, inst[i].handler)
                        = getTransformMatrix(pool, inst[i].handler)

\* two live instances share an entry, the one in slot 0 is about to be
\* destroyed through a group that names it twice, and the other one, whose
\* matrix is not the identity, will be moved into slot 0
C19_Witness ==
  /\ LiveInstance(1) /\ LiveInstance(2)
  /\ pool.descriptors[inst[2].handler].index = 0
  /\ pool.descriptors[inst[1].handler].index = 1
  /\ getTransformMatrix(pool, inst[1].handler) # IdentityMatrix
  /\ LET S == groupDestroy([inst |-> inst, pool |-> pool], <<2, 2>>)
     IN /\ S.pool.descriptors[inst[1].handler].index = 0
        /\ S.pool.entries[pool.descriptors[inst[1].handler].entry].count = 1

(***************************************************************************)
(* The free-list variant of the pool (src/unnamed/part_012) with its       *)
(* InstancedMeshInstance (src/src/Object3DToolbox.ts).  Under              *)
(* SpecFreeList the variable `pool` holds the record of this class and     *)
(* `inst` the sequence of the instances allocate() has returned, in the    *)
(* order of the calls; the set entry.instances holds positions in `inst`.  *)
(* Every method is an operator on S = [pool, inst].                        *)
(***************************************************************************)
\* the options the free-list pool is constructed with: <<initialCapacity,
\* capacityStep>>, or <<initialCapacity>> when capacityStep is left out
FreePoolOptions == {<<1, 1>>, <<2, 1>>, <<0>>}

\* what Array.prototype.pop returns on an empty array, where an index is
\* expected: a value that is no slot, is not -1 and is greater than nothing
UndefinedIndex == -2

\* new Matrix4().makeScale(0, 0, 0)
TEMP_ZERO_MATRIX == <<0, "rIdentity", 0>>

\* new InstancedMeshPool(options)
NewFreePool(options) ==
  [initialCapacity |-> options[1],
   \* options.capacityStep ?? this.initialCapacity
   capacityStep |-> IF Len(options) >= 2 THEN options[2] ELSE options[1],
   meshes |-> <<>>, scene |-> {}, disposed |-> {}]

createIndexRange(start, end) ==
  [i \in 1..Max(0, end - start) |-> start + i - 1]

notifyUpdate(S, key) ==
  [S EXCEPT !.pool.meshes[key].mesh.needsUpdate = TRUE]

updateMeshCount(S, key) ==
  LET entry == S.pool.meshes[key]
      indices == {S.inst[i].index : i \in entry.instances}
      maxIndex == CHOOSE x \in indices \cup {-1} : \A y \in indices \cup {-1} : x >= y
  IN IF entry.instances = {}
     THEN [S EXCEPT !.pool.meshes[key].mesh.count = 0]
     ELSE [S EXCEPT !.pool.meshes[key].mesh.count = maxIndex + 1]

\* InstancedMeshInstance.apply of instance i
apply(S, i) ==
  LET I == S.inst[i]
      matrix == Compose(I.position, I.quaternion, I.scale)
      S1 == [S EXCEPT !.inst[i].matrix = matrix,
                      !.pool.meshes[I.entry].mesh =
                         setMatrixAt(S.pool.meshes[I.entry].mesh, I.index, matrix)]
  IN IF I.index = -1 THEN S ELSE notifyUpdate(S1, I.entry)

freeSetScale3f(S, i, scale) == apply([S EXCEPT !.inst[i].scale = scale], i)

freeSetPosition(S, i, v) == apply([S EXCEPT !.inst[i].position = v], i)

freeGetOrCreateEntry(S, geometry, material) ==
  LET key == Key(geometry, material)
      P == S.pool
      mesh == [NewInstancedMesh(geometry, material, P.initialCapacity,
                                <<Len(S.inst) + 1, "entry">>) EXCEPT !.count = 0]
      entry == [mesh |-> mesh, geometry |-> geometry, material |-> material,
                capacity |-> P.initialCapacity, instances |-> {},
                freeIndices |-> createIndexRange(0, P.initialCapacity)]
  IN IF key \in DOMAIN P.meshes
     THEN S
     ELSE [S EXCEPT !.pool.scene = P.scene \cup {mesh.id},
                    !.pool.meshes = (key :> entry) @@ P.meshes]

freeGrowEntryNoCopy(S, key) ==
  LET P == S.pool
      entry == P.meshes[key]
      newCapacity == entry.capacity + P.capacityStep
      fresh == NewInstancedMesh(entry.geometry, entry.material, newCapacity,
                                <<Len(S.inst) + 1, "grown">>)
      oldArray == entry.mesh.instanceMatrix
      newMesh == [fresh EXCEPT
                    !.needsUpdate = TRUE]
      S1 == [S EXCEPT
               !.pool.scene = (P.scene \ {entry.mesh.id}) \cup {newMesh.id},
               !.pool.disposed = P.disposed \cup {entry.mesh.id},
               !.pool.meshes[key] =
                 [entry EXCEPT
                    !.freeIndices = entry.freeIndices
                                      \o createIndexRange(entry.capacity, newCapacity),
                    !.mesh = newMesh,
                    !.capacity = newCapacity]]
  IN updateMeshCount(S1, key)

freeGrowEntry(S, key) ==
  LET P == S.pool
      entry == P.meshes[key]
      newCapacity == entry.capacity + P.capacityStep
      fresh == NewInstancedMesh(entry.geometry, entry.material, newCapacity,
                                <<Len(S.inst) + 1, "grown">>)
      oldArray == entry.mesh.instanceMatrix
      newMesh == [fresh EXCEPT
                    \* newArray.set(oldArray)
                    !.instanceMatrix =
                       [i \in 1..newCapacity |->
                          IF i <= Len(oldArray) THEN oldArray[i]
                          ELSE fresh.instanceMatrix[i]],
                    !.needsUpdate = TRUE]
      S1 == [S EXCEPT
               !.pool.scene = (P.scene \ {entry.mesh.id}) \cup {newMesh.id},
               !.pool.disposed = P.disposed \cup {entry.mesh.id},
               !.pool.meshes[key] =
                 [entry EXCEPT
                    !.freeIndices = entry.freeIndices
                                      \o createIndexRange(entry.capacity, newCapacity),
                    !.mesh = newMesh,
                    !.capacity = newCapacity]]
  IN updateMeshCount(S1, key)

\* the state after allocate(geometry, material); the instance returned is
\* the last element of inst
freeAllocate(S, geometry, material) ==
  LET key == Key(geometry, material)
      S1 == freeGetOrCreateEntry(S, geometry, material)
      S2 == IF Len(S1.pool.meshes[key].freeIndices) = 0
            THEN freeGrowEntry(S1, key)
            ELSE S1
      freeIndices == S2.pool.meshes[key].freeIndices
      \* entry.freeIndices.pop()
      index == IF Len(freeIndices) = 0 THEN UndefinedIndex
               ELSE freeIndices[Len(freeIndices)]
      popped == IF Len(freeIndices) = 0 THEN freeIndices
                ELSE SubSeq(freeIndices, 1, Len(freeIndices) - 1)
      i == Len(S.inst) + 1
      instance == [index |-> index, entry |-> key,
                   position |-> 0, quaternion |-> "qIdentity", scale |-> 1,
                   matrix |-> IdentityMatrix]
      S3 == [pool |-> [S2.pool EXCEPT !.meshes[key].freeIndices = popped],
             inst |-> Append(S2.inst, instance)]
      S4 == freeSetScale3f(S3, i, 1)
      S5 == [S4 EXCEPT !.pool.meshes[key].instances = @ \cup {i}]
  IN updateMeshCount(S5, key)

freeDeallocateKeepIndex(S, i) ==
  LET I == S.inst[i]
      key == I.entry
      entry == S.pool.meshes[key]
      S1 == [S EXCEPT
               !.pool.meshes[key] =
                  [entry EXCEPT
                     !.instances = entry.instances \ {i},
                     !.freeIndices = Append(entry.freeIndices, I.index),
                     !.mesh = setMatrixAt(entry.mesh, I.index, TEMP_ZERO_MATRIX)]]
  IN IF I.index = -1 THEN S ELSE notifyUpdate(updateMeshCount(S1, key), key)

freeDeallocate(S, i) ==
  LET I == S.inst[i]
      key == I.entry
      entry == S.pool.meshes[key]
      S1 == [S EXCEPT
               !.pool.meshes[key] =
                  [entry EXCEPT
                     !.instances = entry.instances \ {i},
                     !.freeIndices = Append(entry.freeIndices, I.index),
                     !.mesh = setMatrixAt(entry.mesh, I.index, TEMP_ZERO_MATRIX)],
               !.inst[i].index = -1]
  IN IF I.index = -1 THEN S ELSE notifyUpdate(updateMeshCount(S1, key), key)

freeDestroy(S, i) ==
  IF S.inst[i].index = -1 THEN S ELSE freeDeallocate(S, i)

InitFreeList ==
  /\ \E o \in FreePoolOptions : pool = NewFreePool(o)
  /\ inst = <<>>
  /\ peak = <<>>
  /\ landed = NoAllocations
  /\ last = NoOperation

\* pool and inst after a method left S
FreeReturned(S) ==
  /\ pool' = S.pool
  /\ inst' = S.inst
  /\ UNCHANGED <<peak, landed, last>>

FreeAllocate(geometry, material) ==
  /\ Len(inst) < MaxHandlers
  /\ FreeReturned(freeAllocate([pool |-> pool, inst |-> inst], geometry, material))

FreeDeallocate(i) ==
  /\ i \in DOMAIN inst
  /\ FreeReturned(freeDeallocate([pool |-> pool, inst |-> inst], i))

FreeDestroy(i) ==
  /\ i \in DOMAIN inst
  /\ FreeReturned(freeDestroy([pool |-> pool, inst |-> inst], i))

FreeSetPosition(i, v) ==
  /\ i \in DOMAIN inst
  /\ FreeReturned(freeSetPosition([pool |-> pool, inst |-> inst], i, v))

NextFreeList ==
  \/ \E pr \in Pairs : FreeAllocate(pr[1], pr[2])
  \/ \E i \in 1..MaxHandlers : FreeDeallocate(i)
  \/ \E i \in 1..MaxHandlers : FreeDestroy(i)
  \/ \E i \in 1..MaxHandlers, v \in Positions : FreeSetPosition(i, v)

SpecFreeList == InitFreeList /\ [][NextFreeList]_vars

\* the instances of the entry `key` that have not been deallocated
FreeLive(key) == {i \in DOMAIN inst : inst[i].entry = key /\ inst[i].index # -1}

\* C20: in the free-list pool, for every entry, freeIndices has no
\* duplicate, freeIndices and the indices of the live instances are
\* disjoint and together exactly 0..capacity-1, no two live instances share
\* an index, every live index is < capacity and instances.size <= capacity.
C20_FreeListPartition ==
  \A key \in DOMAIN pool.meshes :
    LET entry == pool.meshes[key]
        free == {entry.freeIndices[k] : k \in 1..Len(entry.freeIndices)}
        used == {inst[i].index : i \in FreeLive(key)}
    IN /\ entry.instances = FreeLive(key)
       /\ Cardinality(free) = Len(entry.freeIndices)
       /\ free \cap used = {}
       /\ free \cup used = 0..(entry.capacity - 1)
       /\ \A i, j \in FreeLive(key) : i # j => inst[i].index # inst[j].index
       /\ \A i \in FreeLive(key) : inst[i].index >= 0 /\ inst[i].index < entry.capacity
       /\ Cardinality(entry.instances) <= entry.capacity

\* C21: in the free-list pool every buffer slot inside the drawn range
\* 0..mesh.count-1 that no live instance holds contains the zero-scale
\* matrix, slots that were never allocated included.
C21_UnusedSlotsAreZeroScaled ==
  \A key \in DOMAIN pool.meshes :
    LET entry == pool.meshes[key]
        used == {inst[i].index : i \in FreeLive(key)}
    IN \A j \in 0..(entry.mesh.count - 1) :
         j \notin used => getMatrixAt(entry.mesh, j) = TEMP_ZERO_MATRIX

\* the matrix in the buffer slot of instance i in state S
FreeSlot(S, i) ==
  getMatrixAt(S.pool.meshes[S.inst[i].entry].mesh, S.inst[i].index)

\* C22: in the free-list pool a live instance keeps its index until its own
\* deallocation: every step leaves it or sets it to -1, and an allocate
\* (growing or not), the deallocation or destruction of another instance,
\* and a setter of another instance leave its index and the matrix in its
\* slot as they are.
C22_StableSlots ==
  /\ [](\A i \in DOMAIN inst :
          inst[i].index # -1 =>
            LET S == [pool |-> pool, inst |-> inst]
                same(T) == /\ T.inst[i].index = inst[i].index
                           /\ FreeSlot(T, i) = FreeSlot(S, i)
            IN /\ \A pr \in Pairs : same(freeAllocate(S, pr[1], pr[2]))
               /\ \A j \in DOMAIN inst \ {i} :
                    /\ same(freeDeallocate(S, j))
                    /\ same(freeDestroy(S, j))
                    /\ \A v \in Positions : same(freeSetPosition(S, j, v))
               /\ \A v \in Positions :
                    freeSetPosition(S, i, v).inst[i].index = inst[i].index)
  /\ [][\A i \in DOMAIN inst :
          inst[i].index # -1 => inst'[i].index \in {inst[i].index, -1}
       ]_vars

\* instance 1 is live in slot 0 with a matrix that is not the identity, its
\* entry was grown by a later allocate, and a later instance of the entry
\* has been deallocated
C22_Witness ==
  /\ 1 \in DOMAIN inst
  /\ inst[1].index = 0
  /\ FreeSlot([pool |-> pool, inst |-> inst], 1) # IdentityMatrix
  /\ pool.meshes[inst[1].entry].mesh.id[2] = "grown"
  /\ pool.meshes[inst[1].entry].mesh.id[1] > 1
  /\ \E j \in DOMAIN inst :
       j # 1 /\ inst[j].entry = inst[1].entry /\ inst[j].index = -1

MaxCameras == 2

MIN_FOV == 1

MAX_FOV == 179

Min(a, b) == IF a <= b THEN a ELSE b

\* MathUtils.clamp: Math.max(min, Math.min(max, value))
clamp(value, min, max) == Max(min, Min(max, value))

\* the fov arguments of the constructor, the setters and setFov: below the
\* range, inside it, above it
FovArguments == {0, 90, 200}

Aspects == {1, 2}

\* radToDeg(atan(tan(degToRad(h) / 2) / aspect) * 2) rounded to whole
\* degrees, for the horizontal angles a camera of the model can hold
LandscapeFov(h, aspect) ==
  IF aspect = 1 THEN h
  ELSE CASE h = 0 -> 0
         [] h = 1 -> 1
         [] h = 90 -> 53
         [] h = 179 -> 178
         [] h = 200 -> -141

updateProjectionMatrix(camera) ==
  [camera EXCEPT !.fov =
     IF camera.aspect > 1
     THEN LandscapeFov(camera.horizontalFovInternal, camera.aspect)
     ELSE camera.verticalFovInternal]

\* new DualFovCamera(horizontalFov, verticalFov, aspect)
NewDualFovCamera(horizontalFov, verticalFov, aspect) ==
  updateProjectionMatrix(
    [horizontalFovInternal |-> horizontalFov,
     verticalFovInternal |-> verticalFov,
     aspect |-> aspect,
     fov |-> verticalFov])

\* the getters
horizontalFov(camera) == camera.horizontalFovInternal

verticalFov(camera) == camera.verticalFovInternal

\* the setters
setHorizontalFov(camera, value) ==
  updateProjectionMatrix(
    [camera EXCEPT !.horizontalFovInternal = clamp(value, MIN_FOV, MAX_FOV)])

setVerticalFov(camera, value) ==
  updateProjectionMatrix(
    [camera EXCEPT !.verticalFovInternal = clamp(value, MIN_FOV, MAX_FOV)])

setFov(camera, horizontal, vertical) ==
  updateProjectionMatrix(
    [camera EXCEPT !.horizontalFovInternal = clamp(horizontal, MIN_FOV, MAX_FOV),
                   !.verticalFovInternal = clamp(vertical, MIN_FOV, MAX_FOV)])

copyFovSettings(camera, source) ==
  updateProjectionMatrix(
    [camera EXCEPT !.horizontalFovInternal = horizontalFov(source),
                   !.verticalFovInternal = verticalFov(source)])

\* the vertical angle, in degrees, under which the camera sees each vertex
\* of the argument of fitVerticalFovToPoints (asin of a value in [-1, 1])
VerticalAngles == {-90, 0, 30}

VertexLists == {<<>>} \cup {<<a>> : a \in VerticalAngles}
                 \cup {<<a, b>> : a, b \in VerticalAngles}

Abs(a) == IF a < 0 THEN -a ELSE a

\* the loop of fitVerticalFovToPoints over the vertices from the n-th on
RECURSIVE MaxVerticalAngle(_, _, _)
MaxVerticalAngle(angles, n, maxVerticalAngle) ==
  IF n > Len(angles) THEN maxVerticalAngle
  ELSE MaxVerticalAngle(angles, n + 1,
         IF Abs(angles[n]) > maxVerticalAngle
         THEN Abs(angles[n]) ELSE maxVerticalAngle)

fitVerticalFovToPoints(camera, angles) ==
  LET requiredFov == 2 * MaxVerticalAngle(angles, 1, 0)
  IN updateProjectionMatrix(
       [camera EXCEPT !.verticalFovInternal = clamp(requiredFov, MIN_FOV, MAX_FOV)])

\* clone(): a camera constructed from the internals, then
\* PerspectiveCamera.copy, which copies fov and aspect
clone(camera) ==
  [NewDualFovCamera(camera.horizontalFovInternal, camera.verticalFovInternal,
                    camera.aspect)
     EXCEPT !.fov = camera.fov, !.aspect = camera.aspect]

InitCamera ==
  /\ pool = NewPool(0, 1)
  /\ inst = <<>>
  /\ peak = <<>>
  /\ landed = NoAllocations
  /\ last = NoOperation

CameraConstruct(h, v, aspect) ==
  /\ Len(inst) < MaxCameras
  /\ inst' = Append(inst, NewDualFovCamera(h, v, aspect))
  /\ UNCHANGED <<pool, peak, landed, last>>

CameraSetHorizontalFov(i, value) ==
  /\ i \in DOMAIN inst
  /\ inst' = [inst EXCEPT ![i] = setHorizontalFov(inst[i], value)]
  /\ UNCHANGED <<pool, peak, landed, last>>

CameraSetVerticalFov(i, value) ==
  /\ i \in DOMAIN inst
  /\ inst' = [inst EXCEPT ![i] = setVerticalFov(inst[i], value)]
  /\ UNCHANGED <<pool, peak, landed, last>>

CameraSetFov(i, h, v) ==
  /\ i \in DOMAIN inst
  /\ inst' = [inst EXCEPT ![i] = setFov(inst[i], h, v)]
  /\ UNCHANGED <<pool, peak, landed, last>>

CameraCopyFovSettings(i, j) ==
  /\ i \in DOMAIN inst /\ j \in DOMAIN inst
  /\ inst' = [inst EXCEPT ![i] = copyFovSettings(inst[i], inst[j])]
  /\ UNCHANGED <<pool, peak, landed, last>>

CameraFitVerticalFovToPoints(i, angles) ==
  /\ i \in DOMAIN inst
  /\ inst' = [inst EXCEPT ![i] = fitVerticalFovToPoints(inst[i], angles)]
  /\ UNCHANGED <<pool, peak, landed, last>>

CameraClone(i) ==
  /\ i \in DOMAIN inst
  /\ Len(inst) < MaxCameras
  /\ inst' = Append(inst, clone(inst[i]))
  /\ UNCHANGED <<pool, peak, landed, last>>

NextCamera ==
  \/ \E h \in FovArguments, v \in FovArguments, a \in Aspects : CameraConstruct(h, v, a)
  \/ \E i \in 1..MaxCameras, value \in FovArguments : CameraSetHorizontalFov(i, value)
  \/ \E i \in 1..MaxCameras, value \in FovArguments : CameraSetVerticalFov(i, value)
  \/ \E i \in 1..MaxCameras, h \in FovArguments, v \in FovArguments : CameraSetFov(i, h, v)
  \/ \E i \in 1..MaxCameras, j \in 1..MaxCameras : CameraCopyFovSettings(i, j)
  \/ \E i \in 1..MaxCameras, angles \in VertexLists : CameraFitVerticalFovToPoints(i, angles)
  \/ \E i \in 1..MaxCameras : CameraClone(i)

SpecCamera == InitCamera /\ [][NextCamera]_vars

\* C24: the horizontalFov and verticalFov getters of every camera built by
\* the constructor or clone, whatever setters, setFov, copyFovSettings and
\* fitVerticalFovToPoints calls followed, return a value from 1 to 179.
C24_FovGettersInRange ==
  \A i \in DOMAIN inst :
    /\ horizontalFov(inst[i]) \in MIN_FOV..MAX_FOV
    /\ verticalFov(inst[i]) \in MIN_FOV..MAX_FOV

\* C25: sortInstances(compare) only permutes slots.  From every reachable
\* pool, for every compare function (the inconsistent one included) and
\* every outcome the host sort can produce, the pool it leaves has the same
\* live handlers, every live handler reads the same matrix through
\* getTransformMatrix, every entry has the same count, mesh.count and
\* capacity, and handlers[i] and descriptor.index name each other.
C25_SortOnlyPermutes ==
  \A c \in Compares :
    \A Q \in sortInstances(pool, c, DOMAIN pool.entries) :
      /\ DOMAIN Q.descriptors = DOMAIN pool.descriptors
      /\ DOMAIN Q.entries = DOMAIN pool.entries
      /\ \A h \in LiveHandlers(pool) :
           /\ getTransformMatrix(Q, h) = getTransformMatrix(pool, h)
           /\ Q.descriptors[h].entry = pool.descriptors[h].entry
           /\ Q.descriptors[h].index >= 0
           /\ Q.descriptors[h].index < Q.entries[Q.descriptors[h].entry].count
           /\ Q.entries[Q.descriptors[h].entry].handlers[Q.descriptors[h].index + 1] = h
      /\ \A key \in DOMAIN pool.entries :
           /\ Q.entries[key].count = pool.entries[key].count
           /\ Q.entries[key].mesh.count = pool.entries[key].mesh.count
           /\ Q.entries[key].capacity = pool.entries[key].capacity
           /\ \A i \in 1..Q.entries[key].count :
                /\ isValidHandler(Q, Q.entries[key].handlers[i])
                /\ Q.descriptors[Q.entries[key].handlers[i]] =
                     [entry |-> key, index |-> i - 1]

\* sortInstances has just reordered an entry of three live instances: the
\* first handler issued is no longer in slot 0 and still reads the matrix
\* that was set through it
C25_Witness ==
  /\ last.op = "sortInstances"
  /\ \E key \in DOMAIN pool.entries :
       /\ pool.entries[key].count = 3
       /\ pool.entries[key].handlers[1] # 1
       /\ pool.descriptors[1].entry = key
       /\ pool.descriptors[1].index > 0
  /\ getTransformMatrix(pool, 1) # IdentityMatrix
  /\ getTransformMatrix(pool, 2) = IdentityMatrix

\* C26: from every reachable pool, sortInstances(compare) with a consistent
\* compare leaves, whatever pairs the host sort handed to compare, the live
\* slots 0..count-1 of every entry in non-decreasing compare order.
C26_SlotsSortedAfterSort ==
  \A c \in {x \in Compares : ConsistentComparator(x)} :
    \A Q \in sortInstances(pool, c, DOMAIN pool.entries) :
      \A key \in DOMAIN Q.entries :
        \A i, j \in 0..(Q.entries[key].count - 1) :
          i < j => CompareResult(c, getMatrixAt(Q.entries[key].mesh, i),
                                    getMatrixAt(Q.entries[key].mesh, j)) <= 0

\* C27: for a live instance, every setter called with flushTransform = true
\* leaves no pending edit: when it returns, the instance's buffer slot holds
\* the matrix composed from the instance's position, quaternion and scale,
\* edits made before without flush included, also when the value passed
\* equals the value stored.
C27_FlushingSetterLeavesNothingPending ==
  \A i \in Instances :
    LiveInstance(i) =>
      \A R \in {setPosition(inst[i], pool, v, TRUE) : v \in Positions}
              \cup {setQuaternion(inst[i], pool, v, TRUE) : v \in Quaternions}
              \cup {setScale(inst[i], pool, v, TRUE) : v \in Scales}
              \cup {setTransform(inst[i], pool, M, TRUE) : M \in Matrices} :
        LET now == updateTransformFromMatrix(R.instance)
        IN getTransformMatrix(R.pool, inst[i].handler)
             = ToFloat32(Compose(now.position, now.quaternion, now.scale))

\* C28: allocate returns 1, 2, 3, ... over the whole lifetime of the pool:
\* the counter starts at 1, every allocate returns its value and adds one,
\* and no other call (deallocate, dispose, ...) changes it, so the handler
\* returned was never issued before; deallocate and setTransformMatrix with
\* a handler that is not live (deallocated, or issued before a dispose)
\* leave the pool, and so every entry created later, as it is.
C28_HandlersNeverReused ==
  /\ pool.nextHandler = 1
  /\ [](/\ LiveHandlers(pool) \subseteq Issued(pool)
        /\ \A h \in Handlers :
             ~isValidHandler(pool, h) =>
               /\ deallocate(pool, h) = pool
               /\ \A M \in Matrices : setTransformMatrix(pool, h, M) = pool)
  /\ [][/\ last'.op = "allocate" =>
             /\ last'.handler = pool.nextHandler
             /\ last'.handler \notin Issued(pool)
             /\ isValidHandler(pool', last'.handler)
             /\ pool'.nextHandler = pool.nextHandler + 1
        /\ last'.op # "allocate" => pool'.nextHandler = pool.nextHandler
       ]_vars

\* handlers 1 and 2 were issued, dispose() ran, and the allocate that
\* followed returned 3 and created the only entry there is
C28_Witness ==
  /\ last.op = "allocate"
  /\ last.handler = 3
  /\ LiveHandlers(pool) = {3}
  /\ \A key \in DOMAIN pool.entries : pool.entries[key].mesh.id[1] = 3
  /\ \E id \in pool.disposed : id[1] = 1
  /\ \E id \in pool.disposed : id[1] = 2
  /\ ~isValidHandler(pool, 1) /\ ~isValidHandler(pool, 2)

\* C29: in every reachable state the meshes the pool has in the scene are
\* exactly the current meshes of its entries, one for each entry; no mesh
\* that was disposed is the mesh of an entry or is in the scene.
C29_SceneHoldsEntryMeshes ==
  /\ pool.scene = EntryMeshes(pool)
  /\ Cardinality(pool.scene) = Cardinality(DOMAIN pool.entries)
  /\ pool.scene \cap pool.disposed = {}
  /\ \A key \in DOMAIN pool.entries : pool.entries[key].mesh.id \notin pool.disposed

\* an entry was created, grown and disposed of by dispose(); then two
\* entries were created and grown: the scene holds their two current
\* meshes, and the four meshes that were replaced or released are disposed
C29_Witness ==
  /\ pool.nextHandler = 4
  /\ LiveHandlers(pool) = {2, 3}
  /\ Cardinality(DOMAIN pool.entries) = 2
  /\ pool.scene = {<<2, "grown">>, <<3, "grown">>}
  /\ pool.disposed = {<<1, "entry">>, <<1, "grown">>, <<2, "entry">>, <<3, "entry">>}

(***************************************************************************)
(* Pools constructed with capacityStep 0.                                  *)
(***************************************************************************)
\* {initialCapacity, capacityStep} options with a step of 0 and of more
GrowthPoolOptions == {<<0, 0>>, <<1, 0>>, <<1, 2>>}

InitGrowth ==
  /\ \E o \in GrowthPoolOptions : pool = NewPool(o[1], o[2])
  /\ inst = [i \in 1..MaxInstances |-> NoInstance]
  /\ peak = <<>>
  /\ landed = NoAllocations
  /\ last = NoOperation

SpecGrowth == InitGrowth /\ [][Next]_vars

\* C30: from every reachable pool, whatever capacityStep >= 0 and
\* initialCapacity >= 0 it was constructed with, an allocate call that finds
\* the entry full leaves count <= capacity and gives the handler it returns
\* a slot index below capacity.
C30_GrowthMakesRoom ==
  \A pr \in Pairs :
    LET key == Key(pr[1], pr[2])
        P1 == getOrCreateEntry(pool, pr[1], pr[2], "")
        P2 == allocate(pool, pr[1], pr[2], "")
    IN P1.entries[key].count = P1.entries[key].capacity =>
         /\ P2.entries[key].count <= P2.entries[key].capacity
         /\ P2.descriptors[pool.nextHandler].index < P2.entries[key].capacity

====
